---- MODULE Spec2Model ----
(***************************************************************************)
(* A model of the message lifecycle and texture pool of the Bluesky        *)
(* firehose visualisation (my-react-app/src/TexturePool.ts and             *)
(* my-react-app/src/BlueSkyVis.tsx).                                       *)
(*                                                                         *)
(* Numbers are exact scaled integers:                                      *)
(*   position.z, renderOrder : units of 1/ZScale world units               *)
(*   speed                   : units of 1/ZScale per frame-second/100      *)
(*   deltaTime               : tenths of a second                          *)
(*   globalSpeed             : tenths                                      *)
(*   discardFraction         : tenths                                      *)
(*   specialFrequency        : hundredths                                  *)
(*   Math.random()           : r / RandDen with r in 0..RandDen-1          *)
(* so that 100 * speed * globalSpeed * deltaTime is the integer            *)
(* speed * globalSpeed * deltaTime in z units.  Floating point rounding is *)
(* not modelled.                                                           *)
(***************************************************************************)
EXTENDS Integers, Sequences, FiniteSets, TLC

VARIABLES
    pools,              \* TexturePool.pools : Map<number, TextureObject[]>
    inUse,              \* TexturePool.inUse : Set<TextureObject>, in insertion order
    nextTex,            \* number of TextureObjects constructed so far (object identity)
    disposed,           \* TextureObjects whose DynamicTexture was disposed by cleanup()
    allTextures,        \* history: every TextureObject ever constructed
    hwm,                \* history: per line count, the highest number in use at once
    cleaned,            \* history: cleanup() has been called
    lastOp,             \* history: the last TexturePool call and what it returned
    messageObjects,     \* messageObjectsRef.current : MessageObject[]
    connectingMessage,  \* connectingMessageRef.current : MessageObject | null
    bannerAge,          \* Date.now() - connectingMessage.createdAt, tenths of a second
    settings,           \* settingsRef.current
    last,               \* history: the last event of the visualisation and its outcome
    ws,                 \* the WebSocket of the mount effect: "open" or "closed"
    animationFrame,     \* animationFrameRef.current: "scheduled" or "cancelled"
    mounts,             \* number of times the mount effect has run
    props,              \* the props of the component as the mount render saw them
    probe               \* history: the input and the result of the last call examined

poolVars == <<pools, inUse, nextTex, disposed>>
poolHist == <<allTextures, hwm, cleaned, lastOp>>
appVars == <<messageObjects, connectingMessage, bannerAge, settings, last>>
effectVars == <<ws, animationFrame, mounts, props>>
vars == <<pools, inUse, nextTex, disposed, allTextures, hwm, cleaned, lastOp,
          messageObjects, connectingMessage, bannerAge, settings, last,
          ws, animationFrame, mounts, props, probe>>

(***************************************************************************)
(* Bounds of the model                                                     *)
(***************************************************************************)
\* the harness never holds more than this many surfaces at once
MaxInUse == 2
\* no more than this many TextureObjects are ever constructed
MaxTextures == 11

(***************************************************************************)
(* Program constants                                                       *)
(***************************************************************************)
MIN_LINES == 1
MAX_LINES == 10
initialPoolSize == 1

Range(s) == {s[i] : i \in 1..Len(s)}
Min(S) == CHOOSE x \in S : \A y \in S : x <= y
RECURSIVE SumLen(_, _)
SumLen(f, D) == IF D = {} THEN 0
                ELSE LET k == CHOOSE k \in D : TRUE IN Len(f[k]) + SumLen(f, D \ {k})

(***************************************************************************)
(* TextureObject: { texture, lines }.  id is the object's identity: the    *)
(* serial number of its construction.                                      *)
(***************************************************************************)
TextureObject(n, lines) == [id |-> n, lines |-> lines]
Null == [id |-> 0, lines |-> 0]
\* a TextureObject that no pool of the program constructed
Foreign == [id |-> -1, lines |-> MIN_LINES]

(***************************************************************************)
(* TexturePool                                                             *)
(***************************************************************************)
\* constructor + initPools + createTexturesForPool: buckets MIN_LINES..MAX_LINES,
\* each with initialPoolSize textures, constructed bucket by bucket
InitPools ==
    [l \in MIN_LINES..MAX_LINES |->
        [i \in 1..initialPoolSize |->
            TextureObject((l - MIN_LINES) * initialPoolSize + i, l)]]
InitTextureCount == (MAX_LINES - MIN_LINES + 1) * initialPoolSize

\* Set.has
Has(U, obj) == obj \in Range(U)
\* Set.add: an element already present keeps its place
SetAdd(U, obj) == IF Has(U, obj) THEN U ELSE Append(U, obj)
\* mutant: deletion by splice(indexOf(obj), 1), which drops the last element
\* when obj is absent
SetDeleteSplice(U, obj) ==
    IF obj \in Range(U) THEN SelectSeq(U, LAMBDA x : x # obj)
    ELSE SubSeq(U, 1, Len(U) - 1)
\* Set.delete
SetDelete(U, obj) == SelectSeq(U, LAMBDA x : x # obj)

\* acquire, the range check
OutOfRange(lines) == lines < MIN_LINES \/ lines > MAX_LINES

\* mutant: the in-use test is forgotten, the first texture of the bucket is taken
FindAvailableIgnoringUse(pool, U) ==
    IF Len(pool) = 0 THEN Null ELSE pool[1]
\* mutant: nothing is ever found, every acquire constructs
FindAvailableNever(pool, U) == Null
\* mutant: the search starts one place too far
FindAvailableOffByOne(pool, U) ==
    LET free == {i \in 2..Len(pool) : ~Has(U, pool[i])}
    IN  IF free = {} THEN Null ELSE pool[Min(free)]
\* acquire: pool.find(obj => !this.inUse.has(obj)): the first one, or Null
FindAvailable(pool, U) ==
    LET free == {i \in 1..Len(pool) : ~Has(U, pool[i])}
    IN  IF free = {} THEN Null ELSE pool[Min(free)]

\* mutant: the new texture is marked in use but never pushed to its bucket
PushNewForgotten(pool, newObj) == pool
\* acquire: pool.push(newObj)
PushNew(pool, newObj) == Append(pool, newObj)

\* acquire(lines) on pool state (P, U, n): what it throws, what it returns,
\* and the pool state it leaves
Acquire(P, U, n, lines) ==
    IF OutOfRange(lines)
    THEN [threw |-> "RangeError", obj |-> Null, pools |-> P, inUse |-> U, nextTex |-> n]
    ELSE IF lines \notin DOMAIN P
    THEN \* this.pools.get(lines)! is undefined: pool.find throws
         [threw |-> "TypeError", obj |-> Null, pools |-> P, inUse |-> U, nextTex |-> n]
    ELSE LET found == FindAvailable(P[lines], U)
         IN  IF found # Null
             THEN [threw |-> "none", obj |-> found, pools |-> P,
                   inUse |-> SetAdd(U, found), nextTex |-> n]
             ELSE LET newObj == TextureObject(n + 1, lines)
                  IN  [threw |-> "none", obj |-> newObj,
                       pools |-> [P EXCEPT ![lines] = PushNew(@, newObj)],
                       inUse |-> SetAdd(U, newObj), nextTex |-> n + 1]

\* mutant: the surface is never taken out of the in-use set
ReleaseForgotten(U, obj) == U
\* release(textureObj)
Release(U, obj) == IF obj # Null THEN SetDelete(U, obj) ELSE U

\* cleanup: the textures it disposes
CleanupDisposes(P, U) ==
    (UNION {Range(P[l]) : l \in DOMAIN P}) \ Range(U)
\* mutant: the Map is reset and the active textures are not put back
CleanupPoolsEmpty(U) == [l \in {} |-> <<>>]
(* cleanup: the rebuilt Map, holding the in-use objects in the Set's order *)
CleanupPools(U) ==
    LET keys == {U[i].lines : i \in 1..Len(U)}
    IN  [l \in keys |-> SelectSeq(U, LAMBDA x : x.lines = l)]

getPoolSize(P, lines) ==
    IF OutOfRange(lines) THEN 0
    ELSE IF lines \in DOMAIN P THEN Len(P[lines]) ELSE 0
getActiveTextures(U, lines) ==
    IF OutOfRange(lines) THEN 0
    ELSE Cardinality({i \in 1..Len(U) : U[i].lines = lines})
getTotalActiveTextures(U) == Len(U)
getTotalPoolSize(P) == SumLen(P, DOMAIN P)

\* history: the high-water mark of concurrent use per line count
HwmAfter(h, U) ==
    [l \in MIN_LINES..MAX_LINES |->
        IF getActiveTextures(U, l) > h[l] THEN getActiveTextures(U, l) ELSE h[l]]

(***************************************************************************)
(* The pool on its own, under arbitrary calls                              *)
(***************************************************************************)
IdleApp ==
    /\ messageObjects = <<>>
    /\ connectingMessage = Null
    /\ bannerAge = 0
    /\ settings = [discardFraction |-> 0, globalSpeed |-> 10, specialFrequency |-> 4]
    /\ last = [ev |-> "none", wall |-> 0, discarded |-> FALSE, acquired |-> Null, exited |-> {}]
    /\ ws = "closed"
    /\ animationFrame = "cancelled"
    /\ mounts = 0
    /\ props = [discardFraction |-> 0]
    /\ probe = [fn |-> "none"]

InitPool ==
    /\ pools = InitPools
    /\ inUse = <<>>
    /\ nextTex = InitTextureCount
    /\ disposed = {}
    /\ allTextures = UNION {Range(InitPools[l]) : l \in DOMAIN InitPools}
    /\ hwm = [l \in MIN_LINES..MAX_LINES |-> 0]
    /\ cleaned = FALSE
    /\ lastOp = [op |-> "new", arg |-> Null, threw |-> "none", ret |-> Null]
    /\ IdleApp

\* the line counts the harness asks for: the two ends of the range and their
\* neighbours outside it
AcquireArgs == {MIN_LINES - 1, MIN_LINES, MAX_LINES, MAX_LINES + 1}

PoolAcquire(lines) ==
    LET r == Acquire(pools, inUse, nextTex, lines)
    IN  /\ Len(r.inUse) <= MaxInUse
        /\ r.nextTex <= MaxTextures
        /\ pools' = r.pools
        /\ inUse' = r.inUse
        /\ nextTex' = r.nextTex
        /\ allTextures' = IF r.nextTex > nextTex THEN allTextures \cup {r.obj} ELSE allTextures
        /\ hwm' = HwmAfter(hwm, r.inUse)
        /\ lastOp' = [op |-> "acquire", arg |-> [id |-> 0, lines |-> lines],
                      threw |-> r.threw, ret |-> r.obj]
        /\ UNCHANGED <<disposed, cleaned>>
        /\ UNCHANGED appVars /\ UNCHANGED effectVars /\ UNCHANGED probe

PoolRelease(obj) ==
    /\ inUse' = Release(inUse, obj)
    /\ lastOp' = [op |-> "release", arg |-> obj, threw |-> "none", ret |-> Null]
    /\ UNCHANGED <<pools, nextTex, disposed, allTextures, hwm, cleaned>>
    /\ UNCHANGED appVars /\ UNCHANGED effectVars /\ UNCHANGED probe

PoolCleanup ==
    /\ disposed' = disposed \cup CleanupDisposes(pools, inUse)
    /\ pools' = CleanupPools(inUse)
    /\ cleaned' = TRUE
    /\ lastOp' = [op |-> "cleanup", arg |-> Null, threw |-> "none", ret |-> Null]
    /\ UNCHANGED <<inUse, nextTex, allTextures, hwm>>
    /\ UNCHANGED appVars /\ UNCHANGED effectVars /\ UNCHANGED probe

NextPool ==
    \/ \E lines \in AcquireArgs : PoolAcquire(lines)
    \/ \E obj \in allTextures \cup {Null, Foreign} : PoolRelease(obj)
    \/ PoolCleanup

SpecPool == InitPool /\ [][NextPool]_vars

(***************************************************************************)
(* Properties of the pool on its own (SpecPool)                            *)
(***************************************************************************)
BucketEntries(P) == UNION {{<<l, i>> : i \in 1..Len(P[l])} : l \in DOMAIN P}
\* the places of the bucket lists that hold obj
PlacesOf(P, obj) == {e \in BucketEntries(P) : P[e[1]][e[2]] = obj}
\* the number of bucket places whose texture is not in use
FreeCount(P, U) == Cardinality({e \in BucketEntries(P) : ~Has(U, P[e[1]][e[2]])})

\* C2: after every acquire or release (a failing acquire included) every
\* in-use surface is in exactly one place of exactly one bucket, the in-use
\* set holds no surface twice, and the active count plus the free count is
\* the total pool size.
C2_PoolPartition ==
    lastOp.op \in {"acquire", "release"} =>
        /\ \A i \in 1..Len(inUse) : Cardinality(PlacesOf(pools, inUse[i])) = 1
        /\ \A i, j \in 1..Len(inUse) : inUse[i] = inUse[j] => i = j
        /\ getTotalActiveTextures(inUse) + FreeCount(pools, inUse) = getTotalPoolSize(pools)
C2_Witness ==
    /\ lastOp.op = "acquire" /\ lastOp.threw # "none"
    /\ Len(inUse) = 2 /\ nextTex > InitTextureCount

\* C3: an acquire that succeeds returns a surface of the bucket that was not
\* in use and leaves the bucket's size alone whenever the bucket had one,
\* and constructs (the bucket grows by the returned, new surface) only when
\* it had none; releasing the only free-able surface of a bucket and then
\* acquiring that line count returns the same surface.
C3_ReuseBeforeGrowth ==
    [][(lastOp'.op = "acquire" /\ lastOp'.threw = "none") =>
        LET lines == lastOp'.arg.lines
            free == {t \in Range(pools[lines]) : ~Has(inUse, t)}
        IN  /\ free # {} =>
                /\ lastOp'.ret \in free
                /\ getPoolSize(pools', lines) = getPoolSize(pools, lines)
                /\ nextTex' = nextTex
            /\ free = {} =>
                /\ lastOp'.ret \notin Range(pools[lines])
                /\ getPoolSize(pools', lines) = getPoolSize(pools, lines) + 1
            /\ (lastOp.op = "release" /\ free = {lastOp.arg}) => lastOp'.ret = lastOp.arg
      ]_vars
C3_Witness ==
    /\ lastOp.op = "acquire" /\ lastOp.threw = "none"
    /\ lastOp.ret = TextureObject(1, MIN_LINES) /\ MIN_LINES \in DOMAIN pools
    /\ Len(pools[MIN_LINES]) = 2 /\ Len(inUse) = 2

\* C4 (as claimed): acquire(lines) throws the range error and changes nothing
\* for lines outside MIN_LINES..MAX_LINES, and succeeds for every lines inside.
C4_RangeContract ==
    [][lastOp'.op = "acquire" =>
        LET lines == lastOp'.arg.lines
        IN  IF lines < MIN_LINES \/ lines > MAX_LINES
            THEN /\ lastOp'.threw = "RangeError"
                 /\ pools' = pools /\ inUse' = inUse
            ELSE lastOp'.threw = "none"
      ]_vars

\* C5: release never throws and never touches a bucket; afterwards the
\* surface is not in use and nothing else has left the in-use set; a null,
\* foreign or not-in-use argument changes nothing, and so does a second
\* release of the same surface.
C5_ReleaseIdempotent ==
    [][lastOp'.op = "release" =>
        LET x == lastOp'.arg
        IN  /\ lastOp'.threw = "none"
            /\ pools' = pools
            /\ ~Has(inUse', x)
            /\ Range(inUse') = Range(inUse) \ {x}
            /\ (x = Null \/ ~Has(inUse, x)) => inUse' = inUse
            /\ (lastOp.op = "release" /\ lastOp.arg = x) => inUse' = inUse
      ]_vars
C5_Witness ==
    /\ lastOp.op = "release" /\ lastOp.arg = Foreign
    /\ Len(inUse) = 2

\* C6: until cleanup() is called, each bucket's size is the larger of its
\* initial size and the high-water mark of its concurrent use (which never
\* decreases).
C6_HighWaterMark ==
    ~cleaned =>
        \A l \in MIN_LINES..MAX_LINES :
            getPoolSize(pools, l) = IF hwm[l] > initialPoolSize THEN hwm[l] ELSE initialPoolSize
C6_Witness ==
    /\ ~cleaned /\ hwm[MIN_LINES] = 2 /\ Len(inUse) = 0


(***************************************************************************)
(* TextWrapper.wrapText.  A text is the sequence of its space-separated    *)
(* tokens, a token is given by its pixel width, a line is the sequence of  *)
(* the tokens it holds.  measureText is the width oracle.                  *)
(***************************************************************************)
SpaceWidth == 9
WrapWidth == 650

RECURSIVE measureText(_)
measureText(line) ==
    IF line = <<>> THEN 0
    ELSE IF Len(line) = 1 THEN line[1]
    ELSE line[1] + SpaceWidth + measureText(Tail(line))

\* mutant: a line of exactly maxWidth is accepted
FitsNonStrict(width, maxWidth) == width <= maxWidth
\* wrapText: if (width < maxWidth)
Fits(width, maxWidth) == width < maxWidth

RECURSIVE WrapFrom(_, _, _, _, _)
WrapFrom(words, i, currentLine, lines, maxWidth) ==
    IF i > Len(words) THEN Append(lines, currentLine)
    ELSE IF Fits(measureText(Append(currentLine, words[i])), maxWidth)
         THEN WrapFrom(words, i + 1, Append(currentLine, words[i]), lines, maxWidth)
         ELSE WrapFrom(words, i + 1, <<words[i]>>, Append(lines, currentLine), maxWidth)

wrapText(words, maxWidth) == WrapFrom(words, 2, <<words[1]>>, <<>>, maxWidth)

\* mutant: the layout is passed on as it is
TruncateNever(lines) == lines
\* createMessage: lines = lines.slice(0, 10) when there are more than 10
TruncateLines(lines) == IF Len(lines) > 10 THEN SubSeq(lines, 1, 10) ELSE lines

(***************************************************************************)
(* The visualisation: createMessage and updateScene                        *)
(***************************************************************************)
\* z units per world unit
ZScale == 10000
\* Math.random() returns r / RandDen
RandDen == 1000
tunnelLength == 40
\* updateScene: a message leaves when position.z > 10
ExitZ == 10
\* renderOrder of a focal message: arbitraryOrder + 10000, position.z + 10000
FocalBias == 10000

\* createMessage: Math.floor(Math.random() * (4 + 1 * specialFrequency)),
\* then wall > 3 becomes -1
DrawWall(r, specialFrequency) == (r * (400 + specialFrequency)) \div (100 * RandDen)
RemapWall(wall) == IF wall > 3 THEN -1 ELSE wall

\* createMessage: the discard test of the current variant, applied to the
\* remapped wall
Discards(wall, discardFraction, r) ==
    wall # -1 /\ discardFraction > 0 /\ r * 10 < discardFraction * RandDen

\* mutant: the focal message draws its speed from the wall band
SpawnSpeedWallBand(wall, r) == 500 + (50 * r) \div RandDen
\* createMessage: speed, in 1/ZScale
\*   focal 0.005 + 0.5 * (0.08 + rand * 0.12), wall 0.05 + rand * 0.005
SpawnSpeed(wall, r) ==
    IF wall = -1 THEN 50 + (800 + (1200 * r) \div RandDen) \div 2
    ELSE 500 + (50 * r) \div RandDen

\* createMessage: Math.round(Math.random() * 1000)
ArbitraryOrder(r) == (r * 1000 + RandDen \div 2) \div RandDen

\* mutant: the focal bias at spawn is dropped
SpawnRenderOrderUnbiased(wall, arbitraryOrder) == arbitraryOrder * ZScale
\* createMessage: renderOrder at spawn
SpawnRenderOrder(wall, arbitraryOrder) ==
    IF wall = -1 THEN (arbitraryOrder + FocalBias) * ZScale ELSE arbitraryOrder * ZScale

\* the MessageObject pushed by createMessage; z is mesh.position.z, renderOrder is
\* mesh.renderOrder; age and gs1 are history: the elapsed time accumulated over
\* the frames that advanced it, and whether globalSpeed was 1.0 in all of them
NewMessage(textureObj, wall, rOrder, rSpeed) ==
    [textureObj |-> textureObj,
     speed |-> SpawnSpeed(wall, rSpeed),
     special |-> (wall = -1),
     arbitraryOrder |-> ArbitraryOrder(rOrder),
     z |-> (0 - tunnelLength) * ZScale,
     renderOrder |-> SpawnRenderOrder(wall, ArbitraryOrder(rOrder)),
     age |-> 0,
     gs1 |-> TRUE]

\* mutant: the step is subtracted
AdvanceZBackward(m, globalSpeed, deltaTime) == m.z - m.speed * globalSpeed * deltaTime
\* mutant: a fixed step per frame in place of the elapsed time
AdvanceZPerFrame(m, globalSpeed, deltaTime) == m.z + m.speed * globalSpeed * 1
\* updateScene, the body of the loop up to the exit test
AdvanceZ(m, globalSpeed, deltaTime) == m.z + m.speed * globalSpeed * deltaTime
\* mutant: the focal override is dropped
FrameRenderOrderFlat(special, arbitraryOrder, z) == arbitraryOrder * ZScale
FrameRenderOrder(special, arbitraryOrder, z) ==
    IF special THEN z + FocalBias * ZScale ELSE arbitraryOrder * ZScale
AdvanceMessage(m, globalSpeed, deltaTime) ==
    LET z == AdvanceZ(m, globalSpeed, deltaTime)
    IN  [m EXCEPT !.z = z,
                  !.renderOrder = FrameRenderOrder(m.special, m.arbitraryOrder, z),
                  !.age = @ + deltaTime,
                  !.gs1 = @ /\ globalSpeed = 10]
\* mutant: the exit test is dropped
ExitsNever(m) == FALSE
\* mutant: the exit test is >= instead of >
ExitsAtThreshold(m) == m.z >= ExitZ * ZScale
\* updateScene, the exit test
Exits(m) == m.z > ExitZ * ZScale

\* Array.splice(i, 1)
Splice(s, i) == SubSeq(s, 1, i - 1) \o SubSeq(s, i + 1, Len(s))

\* mutant: the index moves on twice after a removal, so the message next in
\* turn is passed over
RECURSIVE UpdateMessagesSkip(_, _, _, _, _)
UpdateMessagesSkip(msgs, U, i, globalSpeed, deltaTime) ==
    IF i < 1 THEN [messages |-> msgs, inUse |-> U, exited |-> {}]
    ELSE LET m == AdvanceMessage(msgs[i], globalSpeed, deltaTime)
         IN  IF Exits(m)
             THEN LET r == UpdateMessagesSkip(Splice(msgs, i), Release(U, m.textureObj),
                                              i - 2, globalSpeed, deltaTime)
                  IN  [r EXCEPT !.exited = @ \cup {m}]
             ELSE UpdateMessagesSkip([msgs EXCEPT ![i] = m], U, i - 1,
                                     globalSpeed, deltaTime)

\* updateScene: for (i = length - 1; i >= 0; i--) over messageObjects, from
\* (1-based) index i down: the list and the in-use set it leaves, and the
\* messages it removed
RECURSIVE UpdateMessages(_, _, _, _, _)
UpdateMessages(msgs, U, i, globalSpeed, deltaTime) ==
    IF i < 1 THEN [messages |-> msgs, inUse |-> U, exited |-> {}]
    ELSE LET m == AdvanceMessage(msgs[i], globalSpeed, deltaTime)
         IN  IF Exits(m)
             THEN LET r == UpdateMessages(Splice(msgs, i), Release(U, m.textureObj),
                                          i - 1, globalSpeed, deltaTime)
                  IN  [r EXCEPT !.exited = @ \cup {m}]
             ELSE UpdateMessages([msgs EXCEPT ![i] = m], U, i - 1,
                                 globalSpeed, deltaTime)

\* mutant: the banner goes as soon as the fade starts
FadeStarted(elapsed) == elapsed > 20
\* updateScene: the connecting message has faded out: elapsed > 2 and
\* Math.min((elapsed - 2) / 1, 1) === 1
FadeComplete(elapsed) ==
    elapsed > 20 /\ (IF elapsed - 20 < 10 THEN elapsed - 20 ELSE 10) = 10

\* useEffect: the connecting message
ConnectingMessage(textureObj) ==
    [textureObj |-> textureObj, speed |-> 0, special |-> TRUE,
     arbitraryOrder |-> 20000, z |-> 4 * ZScale, renderOrder |-> 30000 * ZScale,
     age |-> 0, gs1 |-> TRUE]

(***************************************************************************)
(* Inputs and bounds of the visualisation                                  *)
(***************************************************************************)
\* at most this many messages are live at once
MaxLive == 2
\* texts that wrap to 2 lines, the line count of the connecting message
Texts == {<<400, 400>>, <<300, 300, 300>>}
\* Math.random() draws, as r of r / RandDen
WallDraws == {600, 995}
DiscardDraws == {0, 999}
OrderDraws == {500}
SpeedDraws == {0}
\* elapsed time between two frames, tenths of a second
DeltaTimes == {0, 50}
\* slider positions
DiscardFractions == {0, 10}
GlobalSpeeds == {10, 20}
SpecialFrequencies == {4}

NoEvent == [ev |-> "none", wall |-> 0, discarded |-> FALSE, acquired |-> Null, exited |-> {}]

\* the state after the mount effect (useEffect): a fresh pool, the connecting
\* message on a 2-line surface, an open WebSocket and a scheduled frame
MountState ==
    LET r == Acquire(InitPools, <<>>, InitTextureCount, 2)
    IN  /\ pools = r.pools
        /\ inUse = r.inUse
        /\ nextTex = r.nextTex
        /\ disposed = {}
        /\ allTextures = UNION {Range(r.pools[l]) : l \in DOMAIN r.pools}
        /\ hwm = HwmAfter([l \in MIN_LINES..MAX_LINES |-> 0], r.inUse)
        /\ cleaned = FALSE
        /\ lastOp = [op |-> "acquire", arg |-> [id |-> 0, lines |-> 2],
                     threw |-> r.threw, ret |-> r.obj]
        /\ messageObjects = <<>>
        /\ connectingMessage = ConnectingMessage(r.obj)
        /\ bannerAge = 0
        /\ \E d \in DiscardFractions :
              /\ props = [discardFraction |-> d]
              /\ settings = [discardFraction |-> d, globalSpeed |-> 10, specialFrequency |-> 4]
        /\ last = [NoEvent EXCEPT !.ev = "mount"]
        /\ ws = "open"
        /\ animationFrame = "scheduled"
        /\ mounts = 1

Init == MountState /\ probe = [fn |-> "none"]

\* ws.onmessage with a text: createMessage(text)
createMessage(text, rWall, rDiscard, rOrder, rSpeed) ==
    LET wall == RemapWall(DrawWall(rWall, settings.specialFrequency))
    IN  IF Discards(wall, settings.discardFraction, rDiscard)
        THEN /\ last' = [NoEvent EXCEPT !.ev = "spawn", !.wall = wall, !.discarded = TRUE]
             /\ UNCHANGED <<pools, inUse, nextTex, messageObjects>>
        ELSE LET lines == TruncateLines(wrapText(text, WrapWidth))
                 r == Acquire(pools, inUse, nextTex, Len(lines))
             IN  IF r.threw # "none"
                 THEN /\ last' = [NoEvent EXCEPT !.ev = "throw", !.wall = wall]
                      /\ UNCHANGED <<pools, inUse, nextTex, messageObjects>>
                 ELSE /\ pools' = r.pools
                      /\ inUse' = r.inUse
                      /\ nextTex' = r.nextTex
                      /\ messageObjects' =
                             Append(messageObjects, NewMessage(r.obj, wall, rOrder, rSpeed))
                      /\ last' = [NoEvent EXCEPT !.ev = "spawn", !.wall = wall,
                                                 !.acquired = r.obj]

OnMessage ==
    /\ ws = "open"
    /\ Len(messageObjects) < MaxLive
    /\ \E text \in Texts, rWall \in WallDraws, rDiscard \in DiscardDraws,
          rOrder \in OrderDraws, rSpeed \in SpeedDraws :
            createMessage(text, rWall, rDiscard, rOrder, rSpeed)
    /\ UNCHANGED <<disposed, connectingMessage, bannerAge, settings>>
    /\ UNCHANGED poolHist /\ UNCHANGED effectVars /\ UNCHANGED probe

\* a frame callback, with deltaTime = now - lastFrameTime and the globalSpeed
\* its loop reads
updateSceneAt(globalSpeed, deltaTime) ==
    LET r == UpdateMessages(messageObjects, inUse, Len(messageObjects),
                            globalSpeed, deltaTime)
        elapsed == bannerAge + deltaTime
    IN  /\ messageObjects' = r.messages
        /\ IF connectingMessage # Null /\ FadeComplete(elapsed)
           THEN /\ inUse' = Release(r.inUse, connectingMessage.textureObj)
                /\ connectingMessage' = Null
                /\ bannerAge' = 0
           ELSE /\ inUse' = r.inUse
                /\ connectingMessage' = connectingMessage
                /\ bannerAge' = IF connectingMessage # Null THEN elapsed ELSE 0
        /\ last' = [NoEvent EXCEPT !.ev = "frame", !.exited = r.exited]
        /\ UNCHANGED <<pools, nextTex, disposed, settings>>
        /\ UNCHANGED poolHist /\ UNCHANGED effectVars /\ UNCHANGED probe

\* updateScene: the loop reads settingsRef.current.globalSpeed
updateScene(deltaTime) == updateSceneAt(settings.globalSpeed, deltaTime)

Frame ==
    /\ animationFrame = "scheduled"
    /\ \E deltaTime \in DeltaTimes : updateScene(deltaTime)

\* the settings sliders: each writes settingsRef.current
SetDiscardFraction ==
    /\ \E v \in DiscardFractions : settings' = [settings EXCEPT !.discardFraction = v]
    /\ last' = [NoEvent EXCEPT !.ev = "setting"]
    /\ UNCHANGED <<messageObjects, connectingMessage, bannerAge>>
    /\ UNCHANGED poolVars /\ UNCHANGED poolHist /\ UNCHANGED effectVars /\ UNCHANGED probe
SetGlobalSpeed ==
    /\ \E v \in GlobalSpeeds : settings' = [settings EXCEPT !.globalSpeed = v]
    /\ last' = [NoEvent EXCEPT !.ev = "setting"]
    /\ UNCHANGED <<messageObjects, connectingMessage, bannerAge>>
    /\ UNCHANGED poolVars /\ UNCHANGED poolHist /\ UNCHANGED effectVars /\ UNCHANGED probe
SetSpecialFrequency ==
    /\ \E v \in SpecialFrequencies : settings' = [settings EXCEPT !.specialFrequency = v]
    /\ last' = [NoEvent EXCEPT !.ev = "setting"]
    /\ UNCHANGED <<messageObjects, connectingMessage, bannerAge>>
    /\ UNCHANGED poolVars /\ UNCHANGED poolHist /\ UNCHANGED effectVars /\ UNCHANGED probe

Next ==
    \/ OnMessage
    \/ Frame
    \/ SetDiscardFraction
    \/ SetGlobalSpeed
    \/ SetSpecialFrequency

Spec == Init /\ [][Next]_vars

(***************************************************************************)
(* The earlier variant of the component: createMessage tests the discard   *)
(* filter on the wall as drawn, before wall > 3 becomes -1, and reads the  *)
(* discardFraction prop; its sliders set the React state, which            *)
(* createMessage does not read and of which updateScene sees the value of  *)
(* the mount                                                               *)
(***************************************************************************)
\* createMessage (earlier variant): Math.floor(Math.random() * 4.04)
DrawWallEarlier(r) == (r * 404) \div (100 * RandDen)
\* createMessage (earlier variant): the discard test, on the wall as drawn
DiscardsEarlier(wall, discardFraction, r) ==
    wall # -1 /\ discardFraction > 0 /\ r * 10 < discardFraction * RandDen

createMessageEarlier(text, rWall, rDiscard, rOrder, rSpeed) ==
    LET drawn == DrawWallEarlier(rWall)
        wall == RemapWall(drawn)
    IN  IF DiscardsEarlier(drawn, props.discardFraction, rDiscard)
        THEN /\ last' = [NoEvent EXCEPT !.ev = "spawn", !.wall = wall, !.discarded = TRUE]
             /\ UNCHANGED <<pools, inUse, nextTex, messageObjects>>
        ELSE LET lines == TruncateLines(wrapText(text, WrapWidth))
                 r == Acquire(pools, inUse, nextTex, Len(lines))
             IN  /\ r.threw = "none"
                 /\ pools' = r.pools
                 /\ inUse' = r.inUse
                 /\ nextTex' = r.nextTex
                 /\ messageObjects' =
                        Append(messageObjects, NewMessage(r.obj, wall, rOrder, rSpeed))
                 /\ last' = [NoEvent EXCEPT !.ev = "spawn", !.wall = wall,
                                            !.acquired = r.obj]

OnMessageEarlier ==
    /\ ws = "open"
    /\ Len(messageObjects) < MaxLive
    /\ \E text \in Texts, rWall \in WallDraws, rDiscard \in DiscardDraws,
          rOrder \in OrderDraws, rSpeed \in SpeedDraws :
            createMessageEarlier(text, rWall, rDiscard, rOrder, rSpeed)
    /\ UNCHANGED <<disposed, connectingMessage, bannerAge, settings>>
    /\ UNCHANGED poolHist /\ UNCHANGED effectVars /\ UNCHANGED probe

\* useState: globalSpeed of the initial settings
MountGlobalSpeed == 10
\* updateScene (earlier variant): the loop reads settings.globalSpeed of the
\* render that ran the mount effect, which also is the updateScene that
\* requestAnimationFrame reschedules
updateSceneEarlier(deltaTime) == updateSceneAt(MountGlobalSpeed, deltaTime)

FrameEarlier ==
    /\ animationFrame = "scheduled"
    /\ \E deltaTime \in DeltaTimes : updateSceneEarlier(deltaTime)

\* the sliders of the earlier variant call setSettings: SetDiscardFraction
\* and SetGlobalSpeed, with settings the React state
NextEarlier ==
    \/ OnMessageEarlier
    \/ FrameEarlier
    \/ SetDiscardFraction
    \/ SetGlobalSpeed

SpecEarlier == Init /\ [][NextEarlier]_vars

(***************************************************************************)
(* Frames keep coming with time passing between them: requestAnimationFrame*)
(* reschedules updateScene at the end of every call.  The sliders are left *)
(* alone: globalSpeed keeps the 1.0 of the mount                           *)
(***************************************************************************)
FramePositive ==
    /\ animationFrame = "scheduled"
    /\ \E deltaTime \in DeltaTimes \ {0} : updateScene(deltaTime)

NextLive ==
    \/ OnMessage
    \/ Frame

SpecLive == Init /\ [][NextLive]_vars /\ WF_vars(FramePositive)

(***************************************************************************)
(* Properties of the visualisation                                         *)
(***************************************************************************)
\* the surfaces held: one by each live message, one by the connecting message
HeldByMessages == {messageObjects[i].textureObj : i \in 1..Len(messageObjects)}
HeldByBanner == IF connectingMessage = Null THEN {} ELSE {connectingMessage.textureObj}

\* C1: in every reachable state no TextureObject is held by two holders (two
\* live messages, or a live message and the connecting message), every held
\* surface is in the in-use set, and the surface a spawn acquires was not in
\* the in-use set when it was acquired.
C1_NoAliasing ==
    /\ [](/\ \A i, j \in 1..Len(messageObjects) :
                messageObjects[i].textureObj = messageObjects[j].textureObj => i = j
          /\ HeldByMessages \cap HeldByBanner = {}
          /\ \A t \in HeldByMessages \cup HeldByBanner : Has(inUse, t))
    /\ [][(last'.ev = "spawn" /\ last'.acquired # Null) =>
            /\ ~Has(inUse, last'.acquired)
            /\ last'.acquired \notin HeldByMessages \cup HeldByBanner
         ]_vars
C1_Witness ==
    /\ Len(messageObjects) = 2
    /\ connectingMessage = Null
    /\ last.ev = "spawn" /\ last.acquired = TextureObject(2, 2)

\* 100 * s * t = 50, in the units of speed * age
ExitProduct == (ExitZ + tunnelLength) * 1000

\* C7: a message advanced only by frames with globalSpeed 1.0 is live exactly
\* while 100 * speed * (its accumulated elapsed time) <= 50: a frame removes
\* it precisely when the product first exceeds 50, every message a frame
\* drops was live before it, and in the state after that frame its surface
\* is out of the in-use set and a free entry of its bucket.
C7_ExitTime ==
    [][last'.ev = "frame" =>
        /\ \A i \in 1..Len(messageObjects') :
              LET m == messageObjects'[i]
              IN  m.gs1 => m.speed * m.age <= ExitProduct
        /\ \A m \in last'.exited :
              /\ m.gs1 => m.speed * m.age > ExitProduct
              /\ \E i \in 1..Len(messageObjects) :
                    /\ messageObjects[i].textureObj = m.textureObj
                    /\ messageObjects[i].gs1 =>
                          messageObjects[i].speed * messageObjects[i].age <= ExitProduct
              /\ ~Has(inUse', m.textureObj)
              /\ m.textureObj \in Range(pools'[m.textureObj.lines])
              /\ FindAvailable(pools'[m.textureObj.lines], inUse') # Null
        /\ \A i \in 1..Len(messageObjects) :
              \/ \E j \in 1..Len(messageObjects') :
                    messageObjects'[j].textureObj = messageObjects[i].textureObj
              \/ \E m \in last'.exited : m.textureObj = messageObjects[i].textureObj
      ]_vars
C7_Witness ==
    /\ last.ev = "frame"
    /\ \E m \in last.exited : m.gs1 /\ ~m.special /\ m.age = 150
    /\ \E i \in 1..Len(messageObjects) :
          messageObjects[i].gs1 /\ messageObjects[i].speed * messageObjects[i].age = ExitProduct

\* the surfaces the texts can be drawn on: slot k of the bucket of l lines
TextLines == {Len(TruncateLines(wrapText(text, WrapWidth))) : text \in Texts}
Slots == 1..(initialPoolSize + MaxLive)
IsLive(l, k) ==
    k <= Len(pools[l]) /\ \E i \in 1..Len(messageObjects) : messageObjects[i].textureObj = pools[l][k]
IsInUse(l, k) == k <= Len(pools[l]) /\ Has(inUse, pools[l][k])

\* C8: when frames keep occurring with positive elapsed time (and the speed
\* multiplier is positive), every surface the texts can be drawn on is again
\* and again neither held by a live message nor in the in-use set: every
\* message is eventually removed and its surface released, whatever arrives
\* in between.
C8_NoLeak ==
    \A l \in TextLines, k \in Slots : []<>(~IsLive(l, k) /\ ~IsInUse(l, k))
C8_Witness ==
    /\ last.ev = "frame"
    /\ Cardinality(last.exited) = 2
    /\ \A m \in last.exited : ~Has(inUse, m.textureObj)

\* C9: after every frame each live focal message has renderOrder equal to
\* its current position.z + 10000 and each live ordinary message has
\* renderOrder equal to its arbitraryOrder; no step changes the
\* arbitraryOrder of a message that stays live.
C9_DrawOrder ==
    /\ [](last.ev = "frame" =>
            \A i \in 1..Len(messageObjects) :
                LET m == messageObjects[i]
                IN  IF m.special
                    THEN m.renderOrder = m.z + FocalBias * ZScale
                    ELSE m.renderOrder = m.arbitraryOrder * ZScale)
    /\ [][\A i \in 1..Len(messageObjects), j \in 1..Len(messageObjects') :
            messageObjects[i].textureObj = messageObjects'[j].textureObj =>
                messageObjects'[j].arbitraryOrder = messageObjects[i].arbitraryOrder
         ]_vars
C9_Witness ==
    /\ last.ev = "frame"
    /\ \E i, j \in 1..Len(messageObjects) :
          /\ messageObjects[i].special /\ ~messageObjects[j].special
          /\ messageObjects[i].z > (0 - tunnelLength) * ZScale
          /\ messageObjects[i].renderOrder #
                (messageObjects[i].arbitraryOrder + FocalBias) * ZScale
          /\ messageObjects[j].z > (0 - tunnelLength) * ZScale

\* C10 (as claimed): with discardFraction = 1.0 a spawn attempt placed on a
\* wall (0..3) creates no message and acquires no surface, and a spawn attempt
\* placed as focal (-1) is never dropped by the discard filter, whatever
\* discardFraction is.
C10_DiscardFilter ==
    [][last'.ev = "spawn" =>
        /\ (settings.discardFraction = 10 /\ last'.wall \in 0..3) =>
              /\ last'.discarded /\ last'.acquired = Null
              /\ messageObjects' = messageObjects
              /\ inUse' = inUse /\ pools' = pools
        /\ last'.wall = -1 => ~last'.discarded
      ]_vars

(***************************************************************************)
(* The text layout examined on its own: wrapText on a range of texts and   *)
(* widths, and the spawn of a message with such a text                     *)
(***************************************************************************)
\* texts of up to this many tokens, of every combination of widths
MaxTokens == 3
\* an empty token, two tokens that together with a space measure exactly
\* WrapWidth, and a token wider than any line
TokenWidths == {0, 300, 341, 700}
\* texts of one repeated token that lay out to 3, 5, 6, 10, 11 and 12 lines
LongTexts == {[i \in 1..n |-> w] : n \in {5, 10, 11, 12}, w \in {300, 700}}
ProbeTexts == (UNION {[1..n -> TokenWidths] : n \in 1..MaxTokens}) \cup LongTexts
MaxWidths == {WrapWidth, 2 * WrapWidth}

InitWrap ==
    /\ MountState
    /\ \E text \in ProbeTexts, maxWidth \in MaxWidths :
          probe = [fn |-> "wrapText", text |-> text, maxWidth |-> maxWidth, lines |-> <<>>]

\* textWrapper.wrapText(text, maxWidth)
ProbeWrap ==
    /\ probe.fn = "wrapText" /\ probe.lines = <<>>
    /\ probe' = [probe EXCEPT !.lines = wrapText(probe.text, probe.maxWidth)]
    /\ UNCHANGED poolVars /\ UNCHANGED poolHist /\ UNCHANGED appVars
    /\ UNCHANGED effectVars

\* ws.onmessage with the text: createMessage(text)
ProbeSpawn ==
    /\ probe.fn = "wrapText"
    /\ ws = "open"
    /\ \E rWall \in WallDraws, rDiscard \in DiscardDraws,
          rOrder \in OrderDraws, rSpeed \in SpeedDraws :
            createMessage(probe.text, rWall, rDiscard, rOrder, rSpeed)
    /\ probe' = [probe EXCEPT !.fn = "createMessage"]
    /\ UNCHANGED <<disposed, connectingMessage, bannerAge, settings>>
    /\ UNCHANGED poolHist /\ UNCHANGED effectVars

NextWrap ==
    \/ ProbeWrap
    \/ ProbeSpawn

SpecWrap == InitWrap /\ [][NextWrap]_vars

RECURSIVE Flatten(_)
Flatten(lines) == IF lines = <<>> THEN <<>> ELSE Head(lines) \o Flatten(Tail(lines))

\* lines is the greedy layout of text: the tokens in order, every token after
\* the first of a line was appended because the line with it measured less
\* than maxWidth, and every line was closed because the next token did not
GreedyLayout(text, maxWidth, lines) ==
    /\ Flatten(lines) = text
    /\ \A k \in 1..Len(lines) :
          /\ Len(lines[k]) >= 1
          /\ \A j \in 2..Len(lines[k]) : measureText(SubSeq(lines[k], 1, j)) < maxWidth
    /\ \A k \in 1..(Len(lines) - 1) :
          measureText(Append(lines[k], lines[k + 1][1])) >= maxWidth

\* C11: wrapText returns the greedy layout of its tokens for every text and
\* width: a token joins the current line exactly when the line, a space and
\* the token measure strictly less than maxWidth; five equal tokens of which
\* exactly two fit a line are laid out as two, two and one.
C11_GreedyWrap ==
    (probe.fn \in {"wrapText", "createMessage"} /\ probe.lines # <<>>) =>
        /\ GreedyLayout(probe.text, probe.maxWidth, probe.lines)
        /\ (probe.text = <<300, 300, 300, 300, 300>> /\ probe.maxWidth = WrapWidth) =>
              probe.lines = << <<300, 300>>, <<300, 300>>, <<300>> >>
C11_Witness ==
    /\ probe.fn = "wrapText"
    /\ probe.text = <<300, 341, 300>> /\ probe.maxWidth = WrapWidth
    /\ probe.lines = << <<300>>, <<341>>, <<300>> >>

\* C12: every call of createMessage that is not discarded acquires a surface
\* of between 1 and 10 lines, the layout's length cut to 10, and acquire
\* does not throw.
C12_LineCountInRange ==
    [][(probe'.fn = "createMessage" /\ probe.fn # "createMessage") =>
        /\ last'.ev = "spawn"
        /\ ~last'.discarded =>
              /\ last'.acquired # Null
              /\ last'.acquired.lines \in MIN_LINES..MAX_LINES
              /\ \/ last'.acquired.lines = Len(wrapText(probe.text, WrapWidth))
                 \/ /\ last'.acquired.lines = MAX_LINES
                    /\ Len(wrapText(probe.text, WrapWidth)) > MAX_LINES
      ]_vars
C12_Witness ==
    /\ probe.fn = "createMessage"
    /\ Len(probe.text) = 12
    /\ last.ev = "spawn" /\ last.acquired # Null /\ last.acquired.lines = MAX_LINES

(***************************************************************************)
(* Properties of cleanup() (SpecPool)                                      *)
(***************************************************************************)
\* every texture held by some bucket
Pooled(P) == UNION {Range(P[l]) : l \in DOMAIN P}

\* C13: cleanup() disposes of exactly the pooled textures that are not in
\* use and of no texture in use, leaves the in-use set as it was, and leaves
\* buckets that hold exactly the in-use textures, each once and under its own
\* line count, so that getTotalPoolSize() = getTotalActiveTextures().
C13_CleanupKeepsActive ==
    [][lastOp'.op = "cleanup" =>
        /\ disposed' \ disposed \subseteq Pooled(pools) \ Range(inUse)
        /\ Pooled(pools) \ Range(inUse) \subseteq disposed'
        /\ disposed' \cap Range(inUse) = {}
        /\ inUse' = inUse
        /\ Pooled(pools') = Range(inUse)
        /\ \A t \in Range(inUse) :
              /\ Cardinality(PlacesOf(pools', t)) = 1
              /\ \A e \in PlacesOf(pools', t) : e[1] = t.lines
        /\ getTotalPoolSize(pools') = getTotalActiveTextures(inUse')
      ]_vars
C13_Witness ==
    /\ lastOp.op = "cleanup"
    /\ Len(inUse) = 1
    /\ Cardinality(disposed) = InitTextureCount
    /\ getTotalPoolSize(pools) = 1

\* C14 (as claimed): once cleanup() has been called, acquire(lines) still
\* succeeds for every lines in MIN_LINES..MAX_LINES, and it returns a newly
\* constructed texture when the bucket of lines has no free one, also when
\* no texture of that line count was in use at the cleanup.
C14_AcquireAfterCleanup ==
    [][(cleaned /\ lastOp'.op = "acquire"
               /\ lastOp'.arg.lines \in MIN_LINES..MAX_LINES) =>
        /\ lastOp'.threw = "none"
        /\ (\A t \in Pooled(pools) : t.lines = lastOp'.arg.lines => Has(inUse, t)) =>
              /\ lastOp'.ret \notin Pooled(pools)
              /\ lastOp'.ret \in Pooled(pools')
              /\ Has(inUse', lastOp'.ret)
      ]_vars

(***************************************************************************)
(* The mount effect over its life: events of the WebSocket with and        *)
(* without a text, frames, the effect's cleanup function (unmount, or a    *)
(* change of websocketUrl) and the effect running again.  The refs         *)
(* (messageObjectsRef, settingsRef) outlive an effect run; the TexturePool,*)
(* the WebSocket and the connecting message are made anew by each run.     *)
(***************************************************************************)
\* the mount effect runs at most this many times
MaxMounts == 2

\* data.commit?.record?.text of a payload without that field
Undefined == <<-1>>
\* the text "": one empty token
EmptyText == <<0>>
\* data.commit?.record?.text
TextOf(data) ==
    IF "commit" \notin DOMAIN data THEN Undefined
    ELSE IF "record" \notin DOMAIN data.commit THEN Undefined
    ELSE IF "text" \notin DOMAIN data.commit.record THEN Undefined
    ELSE data.commit.record.text
\* mutant: the test is text !== undefined
TruthyDefined(text) == text # Undefined
\* if (data.commit?.record?.text): undefined and "" are falsy
Truthy(text) == text # Undefined /\ text # EmptyText

\* JSON.parse(event.data): an identity event, a delete commit, a record of
\* another shape, a post with an empty text, posts with a text
Payloads ==
    {[kind |-> "identity"],
     [commit |-> [operation |-> "delete"]],
     [commit |-> [record |-> [subject |-> "like"]]],
     [commit |-> [record |-> [text |-> EmptyText]]]}
    \cup {[commit |-> [record |-> [text |-> text]]] : text \in Texts}

\* ws.onmessage
onmessage(data) ==
    IF Truthy(TextOf(data))
    THEN /\ Len(messageObjects) < MaxLive
         /\ \E rWall \in WallDraws, rDiscard \in DiscardDraws,
               rOrder \in OrderDraws, rSpeed \in SpeedDraws :
                 createMessage(TextOf(data), rWall, rDiscard, rOrder, rSpeed)
    ELSE /\ last' = [NoEvent EXCEPT !.ev = "skip"]
         /\ UNCHANGED <<pools, inUse, nextTex, messageObjects>>

OnEvent ==
    /\ ws = "open"
    /\ \E data \in Payloads :
          /\ onmessage(data)
          /\ probe' = [fn |-> "onmessage", data |-> data]
    /\ UNCHANGED <<disposed, connectingMessage, bannerAge, settings>>
    /\ UNCHANGED poolHist /\ UNCHANGED effectVars

\* cancelAnimationFrame(animationFrameRef.current)
cancelAnimationFrame(frame) == "cancelled"
\* mutant: the socket is left open
closeForgotten(socket) == socket
\* ws.close()
close(socket) == "closed"

\* the function the mount effect returns: cancelAnimationFrame, ws.close(),
\* engine.dispose(), texturePool.cleanup(), in one synchronous run.  The refs
\* messageObjectsRef and connectingMessageRef are not touched.
Teardown ==
    /\ ws = "open"
    /\ animationFrame' = cancelAnimationFrame(animationFrame)
    /\ ws' = close(ws)
    /\ disposed' = disposed \cup CleanupDisposes(pools, inUse)
    /\ pools' = CleanupPools(inUse)
    /\ cleaned' = TRUE
    /\ lastOp' = [op |-> "cleanup", arg |-> Null, threw |-> "none", ret |-> Null]
    /\ last' = [NoEvent EXCEPT !.ev = "teardown"]
    /\ UNCHANGED <<inUse, nextTex, allTextures, hwm, mounts, props, probe>>
    /\ UNCHANGED <<messageObjects, connectingMessage, bannerAge, settings>>

\* new TexturePool(scene, lineHeight) when n textures have been constructed
NewPools(n) ==
    [l \in MIN_LINES..MAX_LINES |->
        [i \in 1..initialPoolSize |->
            TextureObject(n + (l - MIN_LINES) * initialPoolSize + i, l)]]

\* the mount effect runs again (websocketUrl changed): a new TexturePool, a
\* new connecting message, a new WebSocket, a new frame request
Remount ==
    LET r == Acquire(NewPools(nextTex), <<>>, nextTex + InitTextureCount, 2)
    IN  /\ ws = "closed"
        /\ mounts < MaxMounts
        /\ pools' = r.pools
        /\ inUse' = r.inUse
        /\ nextTex' = r.nextTex
        /\ allTextures' = UNION {Range(r.pools[l]) : l \in DOMAIN r.pools}
        /\ hwm' = HwmAfter([l \in MIN_LINES..MAX_LINES |-> 0], r.inUse)
        /\ cleaned' = FALSE
        /\ lastOp' = [op |-> "acquire", arg |-> [id |-> 0, lines |-> 2],
                      threw |-> r.threw, ret |-> r.obj]
        /\ connectingMessage' = ConnectingMessage(r.obj)
        /\ bannerAge' = 0
        /\ last' = [NoEvent EXCEPT !.ev = "mount"]
        /\ ws' = "open"
        /\ animationFrame' = "scheduled"
        /\ mounts' = mounts + 1
        /\ UNCHANGED <<disposed, messageObjects, settings, props, probe>>

\* the mounted component under events of every payload
NextEvents ==
    \/ OnEvent
    \/ Frame

SpecEvents == Init /\ [][NextEvents]_vars

\* over the effect's life at most this many messages are live at once
MaxLiveEffect == 1
OnMessageEffect ==
    /\ Len(messageObjects) < MaxLiveEffect
    /\ OnMessage

NextEffect ==
    \/ OnMessageEffect
    \/ Frame
    \/ Teardown
    \/ Remount

SpecEffect == Init /\ [][NextEffect]_vars

\* C15: the frame loop is never halted while the subscription is still open,
\* the pool's cleanup() has run only when both are stopped, and once it has
\* run no createMessage, no ws.onmessage and no updateScene step follows
\* until the effect runs again with a pool of its own.
C15_TeardownOrder ==
    /\ [](/\ animationFrame = "cancelled" => ws = "closed"
          /\ cleaned => (ws = "closed" /\ animationFrame = "cancelled"))
    /\ [][cleaned => (last'.ev = "mount" /\ ~cleaned')]_vars
C15_Witness ==
    /\ last.ev = "teardown" /\ cleaned
    /\ Len(messageObjects) = 1
    /\ mounts = 2

\* C16 (as claimed): when teardown has completed the frame request is
\* cancelled, the subscription is closed, the pool's cleanup has run, the
\* live set is empty and no surface is left in the pool's in-use set.
C16_TeardownReclaimsAll ==
    last.ev = "teardown" =>
        /\ animationFrame = "cancelled" /\ ws = "closed" /\ cleaned
        /\ messageObjects = <<>>
        /\ connectingMessage = Null
        /\ inUse = <<>>

MaxLeaked == 2

createMessageThrows(text, rWall, rDiscard) ==
    LET wall == RemapWall(DrawWall(rWall, settings.specialFrequency))
        lines == TruncateLines(wrapText(text, WrapWidth))
        r == Acquire(pools, inUse, nextTex, Len(lines))
    IN  /\ ~Discards(wall, settings.discardFraction, rDiscard)
        /\ r.threw = "none"
        /\ pools' = r.pools
        /\ inUse' = r.inUse
        /\ nextTex' = r.nextTex
        /\ messageObjects' = messageObjects
        /\ last' = [NoEvent EXCEPT !.ev = "throw", !.wall = wall, !.acquired = r.obj]

OnMessageThrows ==
    /\ ws = "open"
    /\ Len(inUse) <= MaxLeaked
    /\ \E text \in Texts, rWall \in WallDraws, rDiscard \in DiscardDraws :
          createMessageThrows(text, rWall, rDiscard)
    /\ UNCHANGED <<disposed, connectingMessage, bannerAge, settings>>
    /\ UNCHANGED poolHist /\ UNCHANGED effectVars /\ UNCHANGED probe

NextFault ==
    \/ OnMessage
    \/ OnMessageThrows
    \/ Frame

SpecFault == Init /\ [][NextFault]_vars

\* C17 (as claimed): a createMessage that fails after it has acquired its
\* surface releases the surface before the failure leaves it: the in-use set
\* and the live set are as they were before the call.
C17_FailedSpawnReleases ==
    [][last'.ev = "throw" =>
        /\ inUse' = inUse
        /\ messageObjects' = messageObjects
      ]_vars

(***************************************************************************)
(* The settings as the handlers read them                                  *)
(***************************************************************************)
\* C19 (as claimed): every frame advances the live messages by the
\* globalSpeed the settings hold when it runs, and every createMessage
\* applies the discardFraction the settings hold when it runs: a value set
\* through the controls is the one the very next call uses.
C19_SettingsReadAfresh ==
    [][/\ last'.ev = "frame" =>
            \E deltaTime \in DeltaTimes :
                \A i \in 1..Len(messageObjects) :
                    LET m == messageObjects[i]
                        z == m.z + m.speed * settings.globalSpeed * deltaTime
                    IN  IF z > ExitZ * ZScale
                        THEN \E e \in last'.exited : e.textureObj = m.textureObj
                        ELSE \E j \in 1..Len(messageObjects') :
                                /\ messageObjects'[j].textureObj = m.textureObj
                                /\ messageObjects'[j].z = z
       /\ last'.ev = "spawn" =>
            /\ (settings.discardFraction = 10 /\ last'.wall \in 0..3) => last'.discarded
            /\ settings.discardFraction = 0 => ~last'.discarded
      ]_vars

(***************************************************************************)
(* Motion against the number of frames: one message, advanced by the loop  *)
(* of updateScene over one frame of dt1 + dt2 and, from the same start,    *)
(* over a frame of dt1 followed by a frame of dt2.  Positions are exact    *)
(* multiples of 1/ZScale; the rounding of the sums in double precision is  *)
(* not represented.                                                        *)
(***************************************************************************)
MotionWalls == {-1, 0}
MotionSpeedDraws == {0, 500, 999}
MotionGlobalSpeeds == {1, 10, 20, 50}
MotionDeltaTimes == {0, 10, 20, 30, 50}

InitMotion ==
    /\ MountState
    /\ \E wall \in MotionWalls, rSpeed \in MotionSpeedDraws,
          globalSpeed \in MotionGlobalSpeeds, dt1 \in MotionDeltaTimes,
          dt2 \in MotionDeltaTimes :
          LET a == Acquire(pools, inUse, nextTex, MIN_LINES)
              m == NewMessage(a.obj, wall, 500, rSpeed)
              start == [messages |-> <<m>>, inUse |-> a.inUse, frames |-> 0]
          IN  probe = [fn |-> "updateScene", globalSpeed |-> globalSpeed,
                       dt1 |-> dt1, dt2 |-> dt2, one |-> start, two |-> start]

\* the loop of updateScene over the run's messages, once
MotionFrame(run, globalSpeed, deltaTime) ==
    LET r == UpdateMessages(run.messages, run.inUse, Len(run.messages),
                            globalSpeed, deltaTime)
    IN  [messages |-> r.messages, inUse |-> r.inUse, frames |-> run.frames + 1]

\* one frame after dt1 + dt2
FrameWhole ==
    /\ probe.fn = "updateScene" /\ probe.one.frames = 0
    /\ probe' = [probe EXCEPT
                    !.one = MotionFrame(@, probe.globalSpeed, probe.dt1 + probe.dt2)]
    /\ UNCHANGED poolVars /\ UNCHANGED poolHist /\ UNCHANGED appVars
    /\ UNCHANGED effectVars

\* a frame after dt1
FrameFirst ==
    /\ probe.fn = "updateScene" /\ probe.two.frames = 0
    /\ probe' = [probe EXCEPT !.two = MotionFrame(@, probe.globalSpeed, probe.dt1)]
    /\ UNCHANGED poolVars /\ UNCHANGED poolHist /\ UNCHANGED appVars
    /\ UNCHANGED effectVars

\* the next frame, dt2 later
FrameSecond ==
    /\ probe.fn = "updateScene" /\ probe.two.frames = 1
    /\ probe' = [probe EXCEPT !.two = MotionFrame(@, probe.globalSpeed, probe.dt2)]
    /\ UNCHANGED poolVars /\ UNCHANGED poolHist /\ UNCHANGED appVars
    /\ UNCHANGED effectVars

NextMotion ==
    \/ FrameWhole
    \/ FrameFirst
    \/ FrameSecond

SpecMotion == InitMotion /\ [][NextMotion]_vars

MotionDone == probe.fn = "updateScene" /\ probe.one.frames = 1 /\ probe.two.frames = 2

\* C20: with the same globalSpeed, a message that has not exited is at the
\* same z after two frames of dt1 and dt2 as after one frame of dt1 + dt2,
\* and either run keeps it exactly when the other does.
C20_FrameRateIndependent ==
    MotionDone =>
        /\ Len(probe.one.messages) = Len(probe.two.messages)
        /\ Len(probe.two.messages) = 1 =>
              probe.one.messages[1].z = probe.two.messages[1].z

C20_Witness ==
    /\ MotionDone
    /\ probe.dt1 > 0 /\ probe.dt2 > 0 /\ probe.dt1 # probe.dt2
    /\ Len(probe.two.messages) = 1
    /\ probe.two.messages[1].z > (0 - tunnelLength) * ZScale
    /\ probe.one.messages[1].z = probe.two.messages[1].z

(***************************************************************************)
(* The webpack build (bluesky-viz-webpack/src/index.ts): class BlueSkyViz. *)
(* Its configuration is the query string of the page, whose documented     *)
(* parameters are discardFrac and speed; props holds them.  It has no      *)
(* connecting message and no teardown.  createMessage is that of the       *)
(* earlier variant of the component: the constant 4.04 and the discard     *)
(* test on the wall as drawn.                                              *)
(***************************************************************************)
\* README, Configuration: speed, in tenths ("?discardFrac=0.5&speed=1.2")
UrlSpeeds == {10, 12, 20}

\* new BlueSkyViz(): constructor
InitWebpack ==
    /\ pools = InitPools
    /\ inUse = <<>>
    /\ nextTex = InitTextureCount
    /\ disposed = {}
    /\ allTextures = UNION {Range(InitPools[l]) : l \in DOMAIN InitPools}
    /\ hwm = [l \in MIN_LINES..MAX_LINES |-> 0]
    /\ cleaned = FALSE
    /\ lastOp = [op |-> "new", arg |-> Null, threw |-> "none", ret |-> Null]
    /\ messageObjects = <<>>
    /\ connectingMessage = Null
    /\ bannerAge = 0
    /\ \E d \in DiscardFractions, k \in UrlSpeeds :
          /\ props = [discardFraction |-> d, speed |-> k]
          /\ settings = [discardFraction |-> d, globalSpeed |-> 10, specialFrequency |-> 4]
    /\ last = [NoEvent EXCEPT !.ev = "mount"]
    /\ ws = "open"
    /\ animationFrame = "scheduled"
    /\ mounts = 1
    /\ probe = [fn |-> "none"]

\* BlueSkyViz.createMessage
createMessageWebpack(text, rWall, rDiscard, rOrder, rSpeed) ==
    createMessageEarlier(text, rWall, rDiscard, rOrder, rSpeed)

\* connectWebSocket: ws.onmessage
OnMessageWebpack ==
    /\ Len(messageObjects) < MaxLive
    /\ \E text \in Texts, rWall \in WallDraws, rDiscard \in DiscardDraws,
          rOrder \in OrderDraws, rSpeed \in SpeedDraws :
            createMessageWebpack(text, rWall, rDiscard, rOrder, rSpeed)
    /\ UNCHANGED <<disposed, connectingMessage, bannerAge, settings>>
    /\ UNCHANGED poolHist /\ UNCHANGED effectVars /\ UNCHANGED probe

\* BlueSkyViz.updateMessages: position.z += 100 * message.speed * deltaTime,
\* no multiplier
updateMessages(deltaTime) == updateSceneAt(10, deltaTime)

\* startRenderLoop: the callback of engine.runRenderLoop
RenderLoop == \E deltaTime \in DeltaTimes : updateMessages(deltaTime)

NextWebpack ==
    \/ OnMessageWebpack
    \/ RenderLoop

SpecWebpack == InitWebpack /\ [][NextWebpack]_vars

\* C21 (as claimed): with the URL parameter speed = k, a frame of the
\* webpack build advances every message by k times what it advances it
\* with speed = 1: z' = z + 100 * speed_of_message * k * deltaTime.
C21_UrlSpeedMultiplies ==
    [][last'.ev = "frame" =>
            \E deltaTime \in DeltaTimes :
                \A i \in 1..Len(messageObjects) :
                    LET m == messageObjects[i]
                        z == m.z + m.speed * props.speed * deltaTime
                    IN  \/ \E j \in 1..Len(messageObjects') :
                                /\ messageObjects'[j].textureObj = m.textureObj
                                /\ messageObjects'[j].z = z
                        \/ /\ z > ExitZ * ZScale
                           /\ \E e \in last'.exited : e.textureObj = m.textureObj
      ]_vars

(***************************************************************************)
(* Draw order of focal against wall messages, over the whole range of      *)
(* Math.round(Math.random() * 1000)                                        *)
(***************************************************************************)
OrderDrawsWide == {0, 500, 999}

OnMessageOrder ==
    /\ ws = "open"
    /\ Len(messageObjects) < MaxLive
    /\ \E rWall \in WallDraws, rOrder \in OrderDrawsWide, rSpeed \in SpeedDraws :
            createMessage(<<400, 400>>, rWall, 999, rOrder, rSpeed)
    /\ UNCHANGED <<disposed, connectingMessage, bannerAge, settings>>
    /\ UNCHANGED poolHist /\ UNCHANGED effectVars /\ UNCHANGED probe

NextOrder ==
    \/ OnMessageOrder
    \/ Frame

SpecOrder == Init /\ [][NextOrder]_vars

\* C22: in every state, also between a spawn and the first frame after it,
\* the renderOrder of each live focal message is strictly greater than the
\* renderOrder of each live wall message.
C22_FocalOnTop ==
    \A i, j \in 1..Len(messageObjects) :
        (messageObjects[i].special /\ ~messageObjects[j].special) =>
            messageObjects[i].renderOrder > messageObjects[j].renderOrder

\* a focal message that no frame has advanced yet, drawn with the lowest
\* order, next to a wall message with the highest
C22_Witness ==
    \E i, j \in 1..Len(messageObjects) :
        /\ messageObjects[i].special /\ messageObjects[i].age = 0
        /\ messageObjects[i].arbitraryOrder = 0
        /\ ~messageObjects[j].special /\ messageObjects[j].arbitraryOrder = 999

(***************************************************************************)
(* The advance pass of updateScene                                         *)
(***************************************************************************)
\* C23: after every frame no live message has z > 10, and every message the
\* frame removed had z > 10 after being advanced: one that is at 10 or
\* nearer stays.
C23_ExitThreshold ==
    [][last'.ev = "frame" =>
          /\ \A j \in 1..Len(messageObjects') :
                messageObjects'[j].z <= ExitZ * ZScale
          /\ \A e \in last'.exited : e.z > ExitZ * ZScale
          /\ \A i \in 1..Len(messageObjects) :
                \/ \E j \in 1..Len(messageObjects') :
                      messageObjects'[j].textureObj = messageObjects[i].textureObj
                \/ \E e \in last'.exited :
                      e.textureObj = messageObjects[i].textureObj
      ]_vars

\* a frame that left one message at exactly 10 and removed another
C23_Witness ==
    /\ last.ev = "frame"
    /\ last.exited # {}
    /\ \E j \in 1..Len(messageObjects) : messageObjects[j].z = ExitZ * ZScale

(***************************************************************************)
(* One advance pass over an arbitrary live list: up to MaxPass wall        *)
(* messages, each at the spawn depth, half way or at the exit threshold,   *)
(* so that a frame removes any subset of the positions of the list.        *)
(***************************************************************************)
MaxPass == 3
PassDepths == {(0 - tunnelLength) * ZScale, (0 - 15) * ZScale, ExitZ * ZScale}

\* the live list whose i-th message is at depth zs[i], each on its own surface
PassMessages(zs) ==
    [i \in 1..Len(zs) |->
        [NewMessage(TextureObject(i, MIN_LINES), 0, 500, 0) EXCEPT !.z = zs[i]]]

InitPass ==
    /\ MountState
    /\ \E zs \in UNION {[1..n -> PassDepths] : n \in 1..MaxPass},
          globalSpeed \in GlobalSpeeds, deltaTime \in DeltaTimes :
          LET msgs == PassMessages(zs)
          IN  probe = [fn |-> "updateMessages", globalSpeed |-> globalSpeed,
                       deltaTime |-> deltaTime, start |-> msgs,
                       run |-> [messages |-> msgs,
                                inUse |-> [i \in 1..Len(msgs) |-> msgs[i].textureObj],
                                frames |-> 0]]

\* the loop of updateScene / updateMessages over the list
PassFrame ==
    /\ probe.fn = "updateMessages" /\ probe.run.frames = 0
    /\ probe' = [probe EXCEPT
                    !.run = MotionFrame(@, probe.globalSpeed, probe.deltaTime)]
    /\ UNCHANGED poolVars /\ UNCHANGED poolHist /\ UNCHANGED appVars
    /\ UNCHANGED effectVars

NextPass == PassFrame

SpecPass == InitPass /\ [][NextPass]_vars

\* the start list with every message advanced once, in order
AdvancedOnce(msgs, globalSpeed, deltaTime) ==
    [i \in 1..Len(msgs) |-> AdvanceMessage(msgs[i], globalSpeed, deltaTime)]

\* the messages of s that do not exit, in the order of s
RECURSIVE Staying(_)
Staying(s) ==
    IF s = <<>> THEN <<>>
    ELSE IF Head(s).z > ExitZ * ZScale THEN Staying(Tail(s))
         ELSE <<Head(s)>> \o Staying(Tail(s))

\* C24: one pass advances and exit-checks every message of the list it
\* started with exactly once: the list it leaves is the start list with each
\* message advanced once and those past the threshold taken out, in the same
\* order, and the in-use set loses exactly the surfaces of those taken out,
\* however many are removed and wherever they are in the list.
C24_RemovalWhileIterating ==
    (probe.fn = "updateMessages" /\ probe.run.frames = 1) =>
        LET adv == AdvancedOnce(probe.start, probe.globalSpeed, probe.deltaTime)
            kept == Staying(adv)
        IN  /\ probe.run.messages = kept
            /\ Range(probe.run.inUse) = {kept[i].textureObj : i \in 1..Len(kept)}
            /\ Len(probe.run.inUse) = Len(kept)

\* a pass over three messages that removed the first and the last and kept
\* the one between them
C24_Witness ==
    /\ probe.fn = "updateMessages" /\ probe.run.frames = 1
    /\ Len(probe.start) = 3 /\ Len(probe.run.messages) = 1
    /\ probe.run.messages[1].textureObj = probe.start[2].textureObj
    /\ probe.run.messages[1].z > probe.start[2].z

(***************************************************************************)
(* Direction of motion                                                     *)
(***************************************************************************)
\* C25: a message is pushed at z = -tunnelLength, and from one state to the
\* next the z of a message that stays live never decreases (deltaTime and
\* globalSpeed are non-negative).
C25_MonotoneZ ==
    [][/\ \A i \in 1..Len(messageObjects), j \in 1..Len(messageObjects') :
            messageObjects'[j].textureObj = messageObjects[i].textureObj =>
                messageObjects'[j].z >= messageObjects[i].z
       /\ Len(messageObjects') > Len(messageObjects) =>
            messageObjects'[Len(messageObjects')].z = (0 - tunnelLength) * ZScale
      ]_vars

\* a frame of positive length has moved a message that is still live, after
\* a slider changed the globalSpeed
C25_Witness ==
    /\ last.ev = "frame"
    /\ settings.globalSpeed = 20
    /\ \E i \in 1..Len(messageObjects) :
          /\ messageObjects[i].age > 0
          /\ ~messageObjects[i].gs1
          /\ messageObjects[i].z > (0 - tunnelLength) * ZScale

(***************************************************************************)
(* The life of a message and of its surface, across the life of the mount  *)
(* effect                                                                  *)
(***************************************************************************)
\* C26 (as claimed): a message enters the live set once, by the push of its
\* spawn, with its surface in the in-use set; it is advanced only while its
\* surface is in the in-use set (it has not been released before its exit);
\* it leaves the live set only by the exit branch of a frame, which releases
\* its surface in that frame; no other step changes the live set.
C26_MessageLifecycle ==
    [][/\ last'.ev = "spawn" =>
            \/ messageObjects' = messageObjects
            \/ /\ Len(messageObjects') = Len(messageObjects) + 1
               /\ SubSeq(messageObjects', 1, Len(messageObjects)) = messageObjects
               /\ messageObjects'[Len(messageObjects')].age = 0
               /\ ~Has(inUse, messageObjects'[Len(messageObjects')].textureObj)
               /\ Has(inUse', messageObjects'[Len(messageObjects')].textureObj)
       /\ last'.ev = "frame" =>
            \A i \in 1..Len(messageObjects) :
                LET m == messageObjects[i]
                IN  /\ Has(inUse, m.textureObj)
                    /\ \/ /\ \E j \in 1..Len(messageObjects') :
                                messageObjects'[j].textureObj = m.textureObj
                          /\ Has(inUse', m.textureObj)
                          /\ \A e \in last'.exited : e.textureObj # m.textureObj
                       \/ /\ \A j \in 1..Len(messageObjects') :
                                messageObjects'[j].textureObj # m.textureObj
                          /\ ~Has(inUse', m.textureObj)
                          /\ \E e \in last'.exited : e.textureObj = m.textureObj
       /\ last'.ev = "frame" => Len(messageObjects') <= Len(messageObjects)
       /\ last'.ev \notin {"spawn", "frame"} => messageObjects' = messageObjects
      ]_vars

\* C27 (as claimed): in every state the in-use set of the current pool is
\* exactly the set of surfaces held by the live messages and the connecting
\* message, and no surface has two holders.
C27_InUseIsHeld ==
    /\ Range(inUse) = HeldByMessages \cup HeldByBanner
    /\ HeldByMessages \cap HeldByBanner = {}
    /\ \A i, j \in 1..Len(messageObjects) :
          messageObjects[i].textureObj = messageObjects[j].textureObj => i = j

(***************************************************************************)
(* The connecting message: frames of 0 s, 1 s and 2.5 s, so that it is     *)
(* seen before the fade (elapsed <= 2), during it and at its end           *)
(***************************************************************************)
BannerDeltaTimes == {0, 10, 25}

FrameBanner ==
    /\ animationFrame = "scheduled"
    /\ \E deltaTime \in BannerDeltaTimes : updateScene(deltaTime)

\* while the connecting message is followed at most this many messages are
\* live at once
MaxLiveBanner == 1
OnMessageBanner ==
    /\ Len(messageObjects) < MaxLiveBanner
    /\ OnMessage

NextBanner ==
    \/ OnMessageBanner
    \/ FrameBanner

SpecBanner == Init /\ [][NextBanner]_vars

\* the surfaces of the messages a frame removed
ExitedSurfaces(exited) == {e.textureObj : e \in exited}

\* C28: the connecting message holds a 2-line surface that is in the in-use
\* set for as long as the reference is set, no spawn is handed that surface
\* meanwhile, the reference is cleared only by a frame in which the fade is
\* complete (elapsed >= 3 s) and that frame releases the surface; once
\* cleared the reference stays cleared and a frame releases nothing but the
\* surfaces of the messages it removes.
C28_BannerSurface ==
    /\ [](connectingMessage # Null =>
            /\ connectingMessage.textureObj.lines = 2
            /\ Has(inUse, connectingMessage.textureObj)
            /\ bannerAge < 30)
    /\ [][/\ (connectingMessage # Null /\ last'.ev = "spawn") =>
                /\ last'.acquired # connectingMessage.textureObj
                /\ connectingMessage' = connectingMessage
          /\ (connectingMessage # Null /\ connectingMessage' # connectingMessage) =>
                /\ connectingMessage' = Null
                /\ last'.ev = "frame"
                /\ \E deltaTime \in BannerDeltaTimes : bannerAge + deltaTime >= 30
                /\ ~Has(inUse', connectingMessage.textureObj)
                /\ Range(inUse') = Range(inUse) \
                      (ExitedSurfaces(last'.exited) \cup {connectingMessage.textureObj})
          /\ connectingMessage = Null =>
                /\ connectingMessage' = Null
                /\ last'.ev = "frame" =>
                      Range(inUse') = Range(inUse) \ ExitedSurfaces(last'.exited)
         ]_vars

\* the fade has completed and the surface the banner held is now held by a
\* message that a frame has advanced
C28_Witness ==
    /\ connectingMessage = Null
    /\ last.ev = "frame"
    /\ \E i \in 1..Len(messageObjects) :
          /\ messageObjects[i].textureObj = TextureObject(2, 2)
          /\ messageObjects[i].age > 0

(***************************************************************************)
(* The two speed bands of createMessage: a focal and a wall message, each  *)
(* with its own draw of Math.random()                                      *)
(***************************************************************************)
SpeedDrawsWide == {0, 83, 84, 166, 167, 250, 500, 750, 999}

InitSpeed ==
    /\ MountState
    /\ \E rFocal \in SpeedDrawsWide, rWall \in SpeedDrawsWide :
          probe = [fn |-> "speed", rFocal |-> rFocal, rWall |-> rWall,
                   focal |-> 0, wall |-> 0, done |-> FALSE]

\* createMessage, the speed of the MessageObject it pushes: once with
\* wall === -1 and once with a wall
ProbeSpeed ==
    /\ probe.fn = "speed" /\ ~probe.done
    /\ probe' = [probe EXCEPT !.focal = SpawnSpeed(-1, probe.rFocal),
                              !.wall = SpawnSpeed(0, probe.rWall),
                              !.done = TRUE]
    /\ UNCHANGED poolVars /\ UNCHANGED poolHist /\ UNCHANGED appVars
    /\ UNCHANGED effectVars

NextSpeed == ProbeSpeed

SpecSpeed == InitSpeed /\ [][NextSpeed]_vars

\* C29 (as claimed): the speed of a focal message is greater than the speed
\* of a wall message, whatever the two draws are.
C29_FocalFasterAlways ==
    (probe.fn = "speed" /\ probe.done) => probe.focal > probe.wall

\* C29 (amended): the focal speed is at least 0.045, and it is greater than
\* the speed of every wall message when the focal draw is at least 1/6.
C29_FocalFasterFromSixth ==
    (probe.fn = "speed" /\ probe.done) =>
        /\ probe.focal >= 450
        /\ 6 * probe.rFocal >= RandDen => probe.focal > probe.wall

\* the least focal draw from 1/6 on, against the greatest wall draw
C29_Witness ==
    /\ probe.fn = "speed" /\ probe.done
    /\ probe.rFocal = 167 /\ probe.rWall = 999
    /\ probe.focal > probe.wall

(***************************************************************************)
(* getCoordsNotInCenter: the placement of a focal message.  Coordinates    *)
(* are in thousandths of a world unit, a draw of Math.random() is          *)
(* r / RandDen.  Each call draws a candidate and either returns it or      *)
(* calls itself again; the depth of the recursion is not represented.      *)
(***************************************************************************)
XDraws == {0, 250, 400, 500, 700, 999}
YDraws == {0, 300, 400, 500, 699, 700, 999}

\* Math.random() * centerExtentX - centerExtentX / 2
CandidateX(r) == (7 * r * 1000) \div RandDen - 3500
\* Math.random() * centerExtent - centerExtent / 2
CandidateY(r) == (10 * r * 1000) \div RandDen - 5000

\* mutant: no candidate is rejected
InCenterNever(x, y) == FALSE
\* Math.sqrt(x*x + y*y) < 2
InCenter(x, y) == x * x + y * y < 2000 * 2000

InitCoords ==
    /\ MountState
    /\ probe = [fn |-> "getCoordsNotInCenter", pc |-> "call", x |-> 0, y |-> 0,
                resampled |-> FALSE]

\* one call of getCoordsNotInCenter: the candidate is returned, or rejected
\* and the function called again
Draw ==
    /\ probe.fn = "getCoordsNotInCenter" /\ probe.pc = "call"
    /\ \E rx \in XDraws, ry \in YDraws :
          LET x == CandidateX(rx)
              y == CandidateY(ry)
          IN  probe' = [probe EXCEPT
                          !.x = x, !.y = y,
                          !.pc = IF InCenter(x, y) THEN "call" ELSE "returned",
                          !.resampled = @ \/ InCenter(x, y)]
    /\ UNCHANGED poolVars /\ UNCHANGED poolHist /\ UNCHANGED appVars
    /\ UNCHANGED effectVars

\* a call whose candidate is outside the clearance radius
DrawOutside ==
    /\ Draw
    /\ probe'.x * probe'.x + probe'.y * probe'.y >= 2000 * 2000

NextCoords == Draw

\* a fair random source: it cannot yield candidates inside the clearance
\* radius for ever
SpecCoords == InitCoords /\ [][NextCoords]_vars /\ WF_vars(DrawOutside)

\* C30: the point returned is at distance >= 2 from the origin with x in
\* [-3.5, 3.5) and y in [-5, 5); a call returns as soon as its candidate is
\* outside the clearance radius, and under a fair random source the
\* sampling does return.
C30_PlacementOutsideCenter ==
    /\ [](probe.pc = "returned" =>
            /\ probe.x * probe.x + probe.y * probe.y >= 2000 * 2000
            /\ probe.x >= -3500 /\ probe.x < 3500
            /\ probe.y >= -5000 /\ probe.y < 5000)
    /\ [][(probe.pc = "call" /\
           probe'.x * probe'.x + probe'.y * probe'.y >= 2000 * 2000)
              => probe'.pc = "returned"]_vars
    /\ (probe.pc = "call") ~> (probe.pc = "returned")

\* a point at distance exactly 2 returned after an earlier candidate was
\* rejected
C30_Witness ==
    /\ probe.fn = "getCoordsNotInCenter" /\ probe.pc = "returned"
    /\ probe.resampled
    /\ probe.x = 0 /\ probe.y = 2000

====
